---- MODULE Spec2Model ----
(***************************************************************************)
(* Model of the morrigan client runtime (src/client.js): the connection    *)
(* lifecycle (connect, open, message, close, delayed reconnect), the       *)
(* stop-signal procedure and the routing of inbound frames to provider     *)
(* message handlers.                                                        *)
(*                                                                         *)
(* Strings that the code inspects character by character (message types,   *)
(* provider names, handler names) are sequences of one-character strings.   *)
(***************************************************************************)
EXTENDS Integers, Sequences, FiniteSets, TLC

(***************************************************************************)
(* Bounds of the model.                                                     *)
(***************************************************************************)
MaxConnections == 2
MaxTypeLen == 3
MaxListLen == 3

(***************************************************************************)
(* Characters.  The regular expression of the message callback              *)
(* (client.js:220) uses the range A-z, which in ASCII runs from 65 to 122   *)
(* and so contains the six characters between 'Z' and 'a'.                  *)
(***************************************************************************)
Upper == {"A","B","C","D","E","F","G","H","I","J","K","L","M",
          "N","O","P","Q","R","S","T","U","V","W","X","Y","Z"}
Lower == {"a","b","c","d","e","f","g","h","i","j","k","l","m",
          "n","o","p","q","r","s","t","u","v","w","x","y","z"}
Digits == {"0","1","2","3","4","5","6","7","8","9"}
(* "grave" stands for the grave accent, ASCII 96. *)
BetweenZanda == {"[", "\\", "]", "^", "_", "grave"}
AzRange == Upper \cup BetweenZanda \cup Lower
ProviderClass == AzRange \cup Digits \cup {"-", "_"}
MessageClass == AzRange \cup Digits \cup {"-", "_", "."}

(***************************************************************************)
(* String literals used by the code and by the provider modules.            *)
(***************************************************************************)
s_client == <<"c","l","i","e","n","t">>
s_capability == <<"c","a","p","a","b","i","l","i","t","y">>
s_report == <<"r","e","p","o","r","t">>
s_token_issue == <<"t","o","k","e","n",".","i","s","s","u","e">>
s_token_refresh_issue == <<"t","o","k","e","n",".","r","e","f","r","e","s","h",".","i","s","s","u","e">>
s_constructor == <<"c","o","n","s","t","r","u","c","t","o","r">>
s_proto == <<"_","_","p","r","o","t","o","_","_">>
s_toString == <<"t","o","S","t","r","i","n","g">>
s_valueOf == <<"v","a","l","u","e","O","f">>

(* Members every object literal inherits from Object.prototype: the        *)
(* registry and the handler maps are plain object literals (client.js:124). *)
ObjectPrototypeKeys == {s_constructor, s_proto, s_toString, s_valueOf}


(***************************************************************************)
(* Provider modules.  A module is what require() or the settings hand to    *)
(* loadProviders: name is the declared name (<<>> when the module declares  *)
(* none), hasMessages tells whether it exports a 'messages' object,         *)
(* messages are the keys of that object, throwing the handlers that raise,  *)
(* hooks the lifecycle hooks it declares, hookThrows the hooks that raise,  *)
(* hasGetToken whether it exports getToken.                                 *)
(***************************************************************************)
HookNames == {"setup", "onConnect", "onDisconnect", "onStop"}

Module(n, hm, ms, th, hk, ht, gt) ==
    [name |-> n, hasMessages |-> hm, messages |-> ms, throwing |-> th,
     hooks |-> hk, hookThrows |-> ht, hasGetToken |-> gt]

(* src/providers/client/module.js *)
clientModule ==
    Module(s_client, TRUE, {s_token_issue}, {},
           {"setup", "onConnect", "onDisconnect"}, {}, TRUE)

(* src/providers/capability/module.js *)
capabilityModule ==
    Module(s_capability, TRUE, {s_report}, {}, {}, {}, FALSE)

(* Host-supplied providers exercising the plugin contract of               *)
(* client.js:106-120: every export but 'version' is optional.              *)
modA ==
    Module(<<"a">>, TRUE, {<<"b">>, <<"b", ".", "a">>}, {<<"b", ".", "a">>},
           {"onConnect", "onDisconnect", "onStop"}, {}, FALSE)
modB ==
    Module(<<"b">>, FALSE, {}, {}, {"onStop"}, {}, FALSE)
modBracket ==
    Module(<<"a", "[">>, TRUE, {<<"b">>}, {}, {}, {}, FALSE)
modStopThrows ==
    Module(<<"b">>, TRUE, {<<"a">>}, {}, {"onDisconnect", "onStop"}, {"onStop"}, FALSE)

modConnectThrows ==
    Module(<<"b">>, TRUE, {}, {}, {"onConnect", "onDisconnect"}, {"onConnect"}, FALSE)

modSetup ==
    Module(<<"a">>, TRUE, {<<"b">>}, {}, {"setup"}, {}, FALSE)
modSetupThrows ==
    Module(<<"b">>, TRUE, {<<"a">>}, {}, {"setup"}, {"setup"}, FALSE)
modProto ==
    Module(s_proto, TRUE, {<<"a">>}, {}, {"setup", "onConnect"}, {}, FALSE)

(* settings.providers: entries are pre-loaded modules (typeof 'object') or  *)
(* package names (typeof 'string'); loadable tells whether require() of the *)
(* package name succeeds.                                                   *)
Preloaded(m) == [kind |-> "object", packageName |-> <<>>, loadable |-> TRUE, module |-> m]
Package(pn, ok, m) == [kind |-> "string", packageName |-> pn, loadable |-> ok, module |-> m]

ProviderLists ==
    { <<Preloaded(clientModule), Preloaded(modA), Preloaded(modB), Preloaded(modBracket)>>,
      <<Preloaded(clientModule), Preloaded(capabilityModule), Preloaded(modA), Preloaded(modStopThrows)>>,
      <<Package(s_client, TRUE, [clientModule EXCEPT !.name = <<>>]),
        Preloaded(modConnectThrows), Preloaded(modA)>>,
      <<Package(s_capability, FALSE, capabilityModule), Preloaded(modA),
        Package(s_client, FALSE, clientModule)>> }

(***************************************************************************)
(* The registry is a JavaScript object: an insertion-ordered list of        *)
(* (key, module) pairs with distinct keys.  Assigning to an existing key    *)
(* replaces the value and keeps the key's position.  Assigning to the key   *)
(* __proto__ of an object literal sets the object's prototype and creates   *)
(* no key.                                                                  *)
(***************************************************************************)
HasOwn(reg, k) == \E i \in 1..Len(reg) : reg[i].key = k
IndexOf(reg, k) == CHOOSE i \in 1..Len(reg) : reg[i].key = k
Own(reg, k) == reg[IndexOf(reg, k)].module

RegistryPut(reg, k, m) ==
    IF k = s_proto THEN reg
    ELSE IF HasOwn(reg, k)
    THEN [reg EXCEPT ![IndexOf(reg, k)] = [key |-> k, module |-> m]]
    ELSE Append(reg, [key |-> k, module |-> m])

(* client.js:130-162, the body of the forEach for one entry *)
loadOne(reg, e) ==
    IF e.kind = "string"
    THEN IF e.loadable
         THEN RegistryPut(reg, IF e.module.name # <<>> THEN e.module.name ELSE e.packageName,
                          e.module)
         ELSE reg
    ELSE IF e.module.name = <<>>
         THEN reg
         ELSE RegistryPut(reg, e.module.name, e.module)

RECURSIVE loadFrom(_, _, _)
loadFrom(reg, list, i) ==
    IF i > Len(list) THEN reg ELSE loadFrom(loadOne(reg, list[i]), list, i + 1)

(* Variant in which a package that fails to load ends the loading. *)
loadProviders_AbortOnFailure(providersList) ==
    LET failed == {i \in 1..Len(providersList) :
                      providersList[i].kind = "string" /\ ~providersList[i].loadable} IN
    IF failed = {} THEN loadFrom(<<>>, providersList, 1)
    ELSE loadFrom(<<>>, SubSeq(providersList, 1,
                               (CHOOSE i \in failed : \A j \in failed : i <= j) - 1), 1)

(* client.js:121-165 *)
loadProviders(providersList) == loadFrom(<<>>, providersList, 1)


(***************************************************************************)
(* The token provider, src/providers/client/module.js.                      *)
(*                                                                         *)
(* JavaScript values it handles: undefined, null, a string, or the Buffer   *)
(* that fs.readFileSync returns when no encoding is given.                  *)
(***************************************************************************)
Undefined == [kind |-> "undefined", v |-> ""]
Null == [kind |-> "null", v |-> ""]
Str(v) == [kind |-> "string", v |-> v]
Buf(v) == [kind |-> "buffer", v |-> v]

(* if (x) *)
Truthy(x) == x.kind = "buffer" \/ (x.kind = "string" /\ x.v # "")

(* A path of the state directory: nothing there, a file with its bytes, or  *)
(* something that exists and cannot be read or replaced (a directory, a     *)
(* file without permission).                                                *)
Absent == [state |-> "absent", bytes |-> ""]
File(b) == [state |-> "file", bytes |-> b]
Unreadable == [state |-> "unreadable", bytes |-> ""]

existsSync(f) == f.state # "absent"

(* fs.readFileSync(path) throws unless the path is a readable file. *)
readThrows(f) == f.state # "file"

(* fs.writeFileSync(path, data) throws when the directory cannot be written, *)
(* when the path cannot be replaced, and when data is not a string or a      *)
(* Buffer; otherwise the file holds exactly the bytes of data.               *)
writeThrows(f, data, writable) ==
    \/ ~writable
    \/ f.state = "unreadable"
    \/ data.kind \notin {"string", "buffer"}

(* The result of a provider function: the state it leaves and whether it    *)
(* threw.                                                                   *)
Outcome(m, threw) == [m |-> m, threw |-> threw]

(* saveToken, module.js:25-30 *)
saveToken(m, writable) ==
    IF writeThrows(m.tokenFile, m.token, writable) THEN Outcome(m, TRUE)
    ELSE LET m1 == [m EXCEPT !.tokenFile = File(m.token.v)] IN
         IF ~Truthy(m1.tokenExpires) THEN Outcome(m1, FALSE)
         ELSE IF writeThrows(m1.expirationFile, m1.tokenExpires, writable) THEN Outcome(m1, TRUE)
         ELSE Outcome([m1 EXCEPT !.expirationFile = File(m1.tokenExpires.v)], FALSE)

(* loadToken, module.js:12-23: a read that throws is caught and the        *)
(* function returns false, leaving what was assigned before the throw.      *)
loadToken(m) ==
    IF readThrows(m.tokenFile) THEN m
    ELSE LET m1 == [m EXCEPT !.token = Buf(m.tokenFile.bytes)] IN
         IF ~existsSync(m1.expirationFile) \/ readThrows(m1.expirationFile) THEN m1
         ELSE [m1 EXCEPT !.tokenExpires = Buf(m1.expirationFile.bytes)]

(***************************************************************************)
(* The core environment handed to setup.  hasArgs tells whether core.args   *)
(* is defined: the environment built by client.js:67-72 has the members     *)
(* settings, providers, log and stateDir only.  argTokenFile is the file    *)
(* named by core.args.tokenFile, argTokenFileGiven whether it is named.     *)
(***************************************************************************)
Core(hasArgs, force, argToken, given, argTokenFile, settingsToken) ==
    [hasArgs |-> hasArgs, force |-> force, argToken |-> argToken,
     argTokenFileGiven |-> given, argTokenFile |-> argTokenFile,
     settingsToken |-> settingsToken]

(* setup, module.js:36-57 *)
setup(m, core, writable) ==
    IF ~core.hasArgs THEN Outcome(m, TRUE)
    ELSE IF \/ ~existsSync(m.tokenFile)
            \/ (core.force /\ (Truthy(core.argToken) \/ core.argTokenFileGiven))
    THEN IF Truthy(core.argToken)
         THEN saveToken([m EXCEPT !.token = core.argToken], writable)
         ELSE IF core.argTokenFileGiven /\ existsSync(core.argTokenFile)
         THEN IF readThrows(core.argTokenFile) THEN Outcome(m, TRUE)
              ELSE saveToken([m EXCEPT !.token = Str(core.argTokenFile.bytes)], writable)
         ELSE IF Truthy(core.settingsToken)
         THEN saveToken([m EXCEPT !.token = core.settingsToken], writable)
         ELSE Outcome(m, TRUE)
    ELSE Outcome(loadToken(m), FALSE)

(* Variant of the handler that does not persist. *)
tokenIssue_NoSave(m, tok, expires, writable) ==
    Outcome([m EXCEPT !.token = tok, !.tokenExpires = expires], FALSE)

(* messages['token.issue'], module.js:84-89, for a message with the given   *)
(* token and expires members                                                *)
tokenIssue(m, tok, expires, writable) ==
    saveToken([m EXCEPT !.token = tok, !.tokenExpires = expires], writable)

(***************************************************************************)
(* State.                                                                   *)
(*   reportURL              settings.reportURL is set                       *)
(*   providers              this.providers, the registry                    *)
(*   connection             this.connection: 0 is null, otherwise the       *)
(*                          number of the WebSocket object                  *)
(*   readyState             readyState of every WebSocket created so far    *)
(*                          (0 CONNECTING, 1 OPEN, 2 CLOSING, 3 CLOSED)     *)
(*   alwaysReconnect        this.alwaysReconnect                            *)
(*   nextConnectionAttempt  this.nextConnectionAttempt holds a timer        *)
(*   timers                 number of reconnect timeouts not yet fired      *)
(*   signalHandlers         the listeners of SIGTERM/SIGINT/SIGHUP in       *)
(*                          registration order, each named by the           *)
(*                          WebSocket its closure captured                  *)
(*   proc                   "running", "exited" (process.exit), "crashed"   *)
(*                          (uncaught exception), "killed" (default signal  *)
(*                          disposition, no listener)                       *)
(*   trace                  what the runtime did, in order                  *)
(*   dispatch               what the message callback did with the frame    *)
(*                          it was last called with                         *)
(*   providersList          settings.providers                              *)
(*   token, tokenExpires, tokenRefreshInterval                              *)
(*                          the module variables of the token provider      *)
(*                          (module.js:8-10); tokenRefreshInterval is 0     *)
(*                          while undefined, else the timer it holds        *)
(*   tokenFile, expirationFile                                              *)
(*                          the files at tokenPath and tokenExpirationPath  *)
(*   writable               the state directory can be written              *)
(*   intervals              the armed refresh intervals, each named by the  *)
(*                          WebSocket its callback captured                 *)
(*   clearImmediateCancels  whether, on the running Node.js build,          *)
(*                          clearImmediate() given the object returned by   *)
(*                          setInterval() disarms that interval: the call   *)
(*                          is outside the documented use of                *)
(*                          clearImmediate, either outcome can occur        *)
(*   sendCall               what the last call that wrote to the transport  *)
(*                          through send() did (client.send or a refresh    *)
(*                          tick)                                           *)
(*   setupCall              what the last call of the token provider's      *)
(*                          setup did                                       *)
(***************************************************************************)
VARIABLES reportURL, providers, connection, readyState, alwaysReconnect,
          nextConnectionAttempt, timers, signalHandlers, proc, trace, dispatch,
          providersList, token, tokenExpires, tokenRefreshInterval, tokenFile,
          expirationFile, writable, intervals, clearImmediateCancels, sendCall,
          setupCall

vars == <<reportURL, providers, connection, readyState, alwaysReconnect,
          nextConnectionAttempt, timers, signalHandlers, proc, trace, dispatch,
          providersList, token, tokenExpires, tokenRefreshInterval, tokenFile,
          expirationFile, writable, intervals, clearImmediateCancels, sendCall,
          setupCall>>

CONNECTING == 0
OPEN == 1
CLOSING == 2
CLOSED == 3

Signals == {"SIGTERM", "SIGINT", "SIGHUP"}

(* One entry of the trace. *)
Event(ev, provider, conn, arg) == [ev |-> ev, provider |-> provider, conn |-> conn, arg |-> arg]

(* The mutable part of the state, as the record the handlers transform. *)
Cur == [connection |-> connection, readyState |-> readyState,
        alwaysReconnect |-> alwaysReconnect,
        nextConnectionAttempt |-> nextConnectionAttempt, timers |-> timers,
        signalHandlers |-> signalHandlers, proc |-> proc, trace |-> trace,
        token |-> token, tokenExpires |-> tokenExpires,
        tokenRefreshInterval |-> tokenRefreshInterval,
        tokenFile |-> tokenFile, expirationFile |-> expirationFile,
        intervals |-> intervals]

Becomes(m) ==
    /\ connection' = m.connection
    /\ readyState' = m.readyState
    /\ alwaysReconnect' = m.alwaysReconnect
    /\ nextConnectionAttempt' = m.nextConnectionAttempt
    /\ timers' = m.timers
    /\ signalHandlers' = m.signalHandlers
    /\ proc' = m.proc
    /\ trace' = m.trace
    /\ token' = m.token
    /\ tokenExpires' = m.tokenExpires
    /\ tokenRefreshInterval' = m.tokenRefreshInterval
    /\ tokenFile' = m.tokenFile
    /\ expirationFile' = m.expirationFile
    /\ intervals' = m.intervals

Log(m, e) == [m EXCEPT !.trace = Append(@, e)]

(* An exception no caller catches ends the process. *)
Uncaught(m) == [m EXCEPT !.proc = "crashed"]

(* The module that exports getToken is the token provider. *)
IsTokenProvider(mod) == mod.hasGetToken

(***************************************************************************)
(* The lifecycle hooks of the token provider.                               *)
(* onConnect, module.js:59-74: sends a refresh request on the connection    *)
(* and arms an interval whose callback sends on that same connection; the   *)
(* handle replaces the one held before.                                     *)
(* onDisconnect, module.js:76-81: hands the handle to clearImmediate and    *)
(* keeps it.                                                                *)
(***************************************************************************)
tokenOnConnect(m, key, c) ==
    [Log(m, Event("send.client.token.refresh", key, c, ""))
        EXCEPT !.tokenRefreshInterval = c, !.intervals = @ \cup {c}]

tokenOnDisconnect(m) ==
    IF m.tokenRefreshInterval # 0 /\ clearImmediateCancels
    THEN [m EXCEPT !.intervals = @ \ {m.tokenRefreshInterval}]
    ELSE m

hookBody(m, mod, key, hook, c) ==
    IF ~IsTokenProvider(mod) THEN m
    ELSE IF hook = "onConnect" THEN tokenOnConnect(m, key, c)
    ELSE IF hook = "onDisconnect" THEN tokenOnDisconnect(m)
    ELSE m

(***************************************************************************)
(* for (const n in self.providers) { if (p.<hook>) p.<hook>(...) }          *)
(* The loops sit in event callbacks without try/catch: a hook that throws   *)
(* ends the loop and the exception is uncaught.                             *)
(***************************************************************************)
RECURSIVE fanOut(_, _, _, _, _)
fanOut(m, hook, c, arg, i) ==
    IF i > Len(providers) THEN m
    ELSE LET p == providers[i] IN
         IF hook \in p.module.hooks
         THEN LET called == hookBody(Log(m, Event(hook, p.key, c, arg)), p.module, p.key, hook, c) IN
              IF hook \in p.module.hookThrows
              THEN Uncaught(called)
              ELSE fanOut(called, hook, c, arg, i + 1)
         ELSE fanOut(m, hook, c, arg, i + 1)


(***************************************************************************)
(* Property lookup on an object literal: an own key, else a member          *)
(* inherited from Object.prototype, else undefined.                         *)
(***************************************************************************)
Get(keys, k) ==
    IF k \in keys THEN "own"
    ELSE IF k \in ObjectPrototypeKeys THEN "inherited"
    ELSE "undefined"

RegistryKeys(reg) == {reg[i].key : i \in 1..Len(reg)}

(***************************************************************************)
(* connect(), client.js:171-308.  It throws when settings.reportURL is not  *)
(* set (180) and when this.providers.client.getToken is not callable (185). *)
(* Otherwise it creates a WebSocket in state CONNECTING, stores it in       *)
(* this.connection, and registers the listeners: the signal listener        *)
(* handleSignal is a closure over this call's WebSocket (269, 304-306).     *)
(* Both callers, the host's top level (part_001:245) and the reconnect      *)
(* timeout (client.js:264), leave the exception uncaught.                   *)
(***************************************************************************)
connectThrows ==
    \/ ~reportURL
    \/ Get(RegistryKeys(providers), s_client) # "own"
    \/ ~Own(providers, s_client).hasGetToken

connect(m) ==
    IF connectThrows THEN Uncaught(Log(m, Event("connect.throw", <<>>, 0, "")))
    ELSE LET c == Len(m.readyState) + 1 IN
         Log([m EXCEPT !.readyState = Append(@, CONNECTING),
                       !.connection = c,
                       !.signalHandlers = Append(@, c)],
             Event("connect", <<>>, c, ""))

(* Variants of the error listener that also retry: after the timeout, or   *)
(* at once.                                                                 *)
errorHandler_Schedule(m, c) ==
    Log([m EXCEPT !.nextConnectionAttempt = TRUE, !.timers = @ + 1], Event("error", <<>>, c, ""))

errorHandler_Connect(m, c) == connect(Log(m, Event("error", <<>>, c, "")))

(* connection.on('error'), client.js:189-191: logs. *)
errorHandler(m, c) == Log(m, Event("error", <<>>, c, ""))

(* connection.on('open'), client.js:193-204 *)
openHandler(m, c) == fanOut(Log(m, Event("open", <<>>, c, "")), "onConnect", c, "", 1)

(* connection.on('close'), client.js:249-267 *)
closeHandler(m, c) ==
    LET m1 == fanOut(Log(m, Event("closed", <<>>, c, "")), "onDisconnect", c, "", 1) IN
    IF m1.proc = "running" /\ m1.alwaysReconnect
    THEN Log([m1 EXCEPT !.nextConnectionAttempt = TRUE, !.timers = @ + 1],
             Event("schedule", <<>>, c, ""))
    ELSE m1

(* The timeout callback, client.js:262-265 *)
reconnectCallback(m) == connect([m EXCEPT !.nextConnectionAttempt = FALSE])

(* Variant of handleSignal without the final process.exit(). *)
handleSignal_NoExit(m, c, e) ==
    LET m1 == [m EXCEPT !.alwaysReconnect = FALSE]
        m2 == IF m1.readyState[c] = OPEN
              THEN fanOut(Log(Log([m1 EXCEPT !.readyState[c] = CLOSING],
                                  Event("send.client.state.stopped", <<>>, c, e)),
                              Event("close", <<>>, c, "")),
                          "onDisconnect", c, "", 1)
              ELSE m1
    IN  IF m2.proc = "running" THEN fanOut(m2, "onStop", c, e, 1) ELSE m2

(***************************************************************************)
(* handleSignal, client.js:269-302, for the listener whose closure holds    *)
(* WebSocket c.  connection.close() moves an OPEN socket to CLOSING;        *)
(* process.exit() ends the process before any later listener runs.          *)
(***************************************************************************)
handleSignal(m, c, e) ==
    LET m1 == [m EXCEPT !.alwaysReconnect = FALSE]
        m2 == IF m1.readyState[c] = OPEN
              THEN fanOut(Log(Log([m1 EXCEPT !.readyState[c] = CLOSING],
                                  Event("send.client.state.stopped", <<>>, c, e)),
                              Event("close", <<>>, c, "")),
                          "onDisconnect", c, "", 1)
              ELSE m1
        m3 == IF m2.proc = "running" THEN fanOut(m2, "onStop", c, e, 1) ELSE m2
    IN  IF m3.proc = "running"
        THEN Log([m3 EXCEPT !.proc = "exited"], Event("exit", <<>>, 0, e))
        ELSE m3

(* process.emit(signal): the listeners run in registration order until the  *)
(* process ends.                                                            *)
RECURSIVE runListeners(_, _, _)
runListeners(m, e, i) ==
    IF i > Len(m.signalHandlers) \/ m.proc # "running" THEN m
    ELSE runListeners(handleSignal(m, m.signalHandlers[i], e), e, i + 1)


(***************************************************************************)
(* Inbound frames.  json is what JSON.parse makes of the frame:             *)
(* "malformed" (it throws), a non-object value, or an object; for an        *)
(* object, tkind is the JavaScript type of its 'type' member ("undefined"   *)
(* when it has none), tstr the member when it is a string, tnum its value   *)
(* when it is a number and 0/1 when it is a boolean; token and expires are  *)
(* the members of those names.                                              *)
(***************************************************************************)
Frame(json, tkind, tstr, tnum) ==
    [json |-> json, tkind |-> tkind, tstr |-> tstr, tnum |-> tnum,
     token |-> Undefined, expires |-> Undefined]
TypedFrame(t) == Frame("object", "string", t, 0)
IssueFrame(t, tok, expires) == [TypedFrame(t) EXCEPT !.token = tok, !.expires = expires]

(* !msg.type *)
Falsy(f) ==
    \/ f.tkind \in {"undefined", "null"}
    \/ f.tkind \in {"number", "boolean"} /\ f.tnum = 0
    \/ f.tkind = "string" /\ f.tstr = <<>>

(***************************************************************************)
(* msg.type.match(/^(?<provider>[A-z0-9\-_]+)\.(?<message>[A-z0-9\-_.]+)$/) *)
(* client.js:220.  The provider class has no dot, so the only dot that can  *)
(* separate the groups is the first one.                                    *)
(***************************************************************************)
NoMatch == [ok |-> FALSE, provider |-> <<>>, message |-> <<>>]

SplitAt(t, i) == [ok |-> TRUE, provider |-> SubSeq(t, 1, i - 1), message |-> SubSeq(t, i + 1, Len(t))]

(* Variant whose provider class admits the dot: the greedy first group     *)
(* then runs to the last dot.                                               *)
TypeMatch_LastDot(t) ==
    LET I == {i \in 2..(Len(t) - 1) :
                /\ t[i] = "."
                /\ \A j \in 1..(i - 1) : t[j] \in MessageClass
                /\ \A j \in (i + 1)..Len(t) : t[j] \in MessageClass}
    IN  IF I = {} THEN NoMatch ELSE SplitAt(t, CHOOSE i \in I : \A k \in I : k <= i)

TypeMatch(t) ==
    LET I == {i \in 2..(Len(t) - 1) :
                /\ t[i] = "."
                /\ \A j \in 1..(i - 1) : t[j] \in ProviderClass
                /\ \A j \in (i + 1)..Len(t) : t[j] \in MessageClass}
    IN  IF I = {} THEN NoMatch ELSE SplitAt(t, CHOOSE i \in I : TRUE)

(***************************************************************************)
(* connection.on('message'), client.js:206-247, called with frame f on      *)
(* WebSocket c.  The result records                                         *)
(*   outcome    where the callback ended                                    *)
(*   lookedUp   self.providers[...] was evaluated (227)                     *)
(*   consulted  p.messages[...] was evaluated (234)                         *)
(*   invoked    the provider handlers called, with their arguments (242)    *)
(*   escaped    an exception left the callback                              *)
(***************************************************************************)
Result(f, c, outcome, lookedUp, consulted, invoked, escaped) ==
    [frame |-> f, conn |-> c, outcome |-> outcome, lookedUp |-> lookedUp,
     consulted |-> consulted, invoked |-> invoked, escaped |-> escaped]

NoDispatch == Result(Frame("none", "undefined", <<>>, 0), 0, "idle", FALSE, FALSE, <<>>, FALSE)

Invocation(key, h, f, c) ==
    [provider |-> key, handler |-> h, message |-> f, connection |-> c, coreEnv |-> TRUE]

(* What running the handler does to the state: the token provider's        *)
(* token.issue handler is modelled, the handlers of other providers are     *)
(* known by whether they throw.                                             *)
IsTokenIssue(mod, h) == IsTokenProvider(mod) /\ h = s_token_issue

handlerThrows(mod, h, f) ==
    \/ h \in mod.throwing
    \/ IsTokenIssue(mod, h) /\ tokenIssue(Cur, f.token, f.expires, writable).threw

(* Variant of the call without the try/catch around it. *)
callHandler_NoTry(f, c, key, h, mod) ==
    Result(f, c, IF handlerThrows(mod, h, f) THEN "throw.handler" ELSE "handled",
           TRUE, TRUE, <<Invocation(key, h, f, c)>>, handlerThrows(mod, h, f))

(* try { h(msg, connection, self.coreEnv) } catch(e) { log }, client.js:241-245 *)
callHandler(f, c, key, h, mod) ==
    Result(f, c, IF handlerThrows(mod, h, f) THEN "caught" ELSE "handled",
           TRUE, TRUE, <<Invocation(key, h, f, c)>>, FALSE)

messageHandler(f, c) ==
    IF f.json = "malformed" THEN Result(f, c, "drop.json", FALSE, FALSE, <<>>, FALSE)
    ELSE IF f.json = "null" THEN Result(f, c, "throw.type.of.null", FALSE, FALSE, <<>>, TRUE)
    ELSE IF f.json # "object" \/ Falsy(f) THEN Result(f, c, "drop.notype", FALSE, FALSE, <<>>, FALSE)
    ELSE IF f.tkind # "string" THEN Result(f, c, "throw.match.not.function", FALSE, FALSE, <<>>, TRUE)
    ELSE LET m == TypeMatch(f.tstr) IN
    IF ~m.ok THEN Result(f, c, "drop.format", FALSE, FALSE, <<>>, FALSE)
    ELSE LET p == Get(RegistryKeys(providers), m.provider) IN
    IF p = "undefined" THEN Result(f, c, "drop.noprovider", TRUE, FALSE, <<>>, FALSE)
    ELSE IF p = "inherited" \/ ~Own(providers, m.provider).hasMessages
         THEN Result(f, c, "throw.messages.undefined", TRUE, TRUE, <<>>, TRUE)
    ELSE LET mod == Own(providers, m.provider)
             h == Get(mod.messages, m.message) IN
    IF h = "undefined" THEN Result(f, c, "drop.nohandler", TRUE, TRUE, <<>>, FALSE)
    ELSE IF h = "inherited" THEN Result(f, c, "called.inherited", TRUE, TRUE, <<>>, FALSE)
    ELSE callHandler(f, c, m.provider, m.message, mod)

(* Variant in which the token of a frame is taken over whether or not the  *)
(* frame reached the handler.                                               *)
handlerBody_Unrouted(m, d) ==
    IF d.frame.token # Undefined
    THEN tokenIssue(m, d.frame.token, d.frame.expires, writable).m
    ELSE m

(* The state the invoked handler leaves. *)
handlerBody(m, d) ==
    IF d.invoked = <<>> THEN m
    ELSE LET inv == d.invoked[1] IN
         IF IsTokenIssue(Own(providers, inv.provider), inv.handler)
         THEN tokenIssue(m, inv.message.token, inv.message.expires, writable).m
         ELSE m

(***************************************************************************)
(* send(message), client.js:87-104, and the transport write of a refresh    *)
(* tick, module.js:68-72.  A message is undefined or an object whose type   *)
(* member has the given JavaScript type.  The record of a call tells who    *)
(* called, the connection used (0 for none) and its readyState (-1 for      *)
(* none), how many times connection.send was called and how many of those   *)
(* reached an OPEN socket, and whether the call threw.                      *)
(***************************************************************************)
OutMessage(kind, tkind) == [kind |-> kind, tkind |-> tkind]

OutMessages ==
    {OutMessage("undefined", "undefined")}
    \cup {OutMessage("object", k) : k \in {"string", "undefined", "null", "number", "object"}}

SendRecord(by, c, st, msg, calls, writes, threw) ==
    [by |-> by, conn |-> c, state |-> st, message |-> msg,
     calls |-> calls, writes |-> writes, threw |-> threw]

NoSend == SendRecord("none", 0, -1, OutMessage("undefined", "undefined"), 0, 0, FALSE)

(* Variant of send without the readyState test. *)
send_NoStateCheck(msg) ==
    IF connection = 0 THEN SendRecord("host", 0, -1, msg, 0, 0, TRUE)
    ELSE IF msg.kind # "object" \/ msg.tkind # "string"
         THEN SendRecord("host", connection, readyState[connection], msg, 0, 0, TRUE)
    ELSE SendRecord("host", connection, readyState[connection], msg, 1,
                    IF readyState[connection] = OPEN THEN 1 ELSE 0, FALSE)

send(msg) ==
    IF connection = 0 THEN SendRecord("host", 0, -1, msg, 0, 0, TRUE)
    ELSE IF readyState[connection] # OPEN
         THEN SendRecord("host", connection, readyState[connection], msg, 0, 0, TRUE)
    ELSE IF msg.kind # "object" \/ msg.tkind # "string"
         THEN SendRecord("host", connection, readyState[connection], msg, 0, 0, TRUE)
    ELSE SendRecord("host", connection, readyState[connection], msg, 1, 1, FALSE)

(* The interval callback: connection.send(...) on the captured WebSocket,   *)
(* whatever its state.  On a socket that is not OPEN the ws library either  *)
(* throws or discards the data, depending on its version.                   *)
refreshTick(c, wsThrows) ==
    SendRecord("tick", c, readyState[c], OutMessage("object", "string"), 1,
               IF readyState[c] = OPEN THEN 1 ELSE 0,
               readyState[c] # OPEN /\ wsThrows)

(***************************************************************************)
(* The frames the server may send.                                          *)
(***************************************************************************)
EnumAlphabet == {"a", ".", "["}

StringsUpTo(n) == UNION {[1..k -> EnumAlphabet] : k \in 0..n}

SpecialTypes ==
    { s_client \o <<".">> \o s_token_issue,
      s_client \o <<".">> \o s_token_refresh_issue,
      s_capability \o <<".">> \o s_report,
      s_constructor \o <<".">> \o <<"b">>,
      s_proto \o <<".">> \o <<"b">>,
      <<"a", ".">> \o s_toString,
      <<"a", ".">> \o s_valueOf,
      <<"c", ".", "b">>,
      <<"a", ".", "b">>,
      <<"b", ".", "a">>,
      <<"b", ".", "b">>,
      <<"a", ".", "b", ".", "a">>,
      <<"a", ".", "b", ".", "b">>,
      <<"a", ".", ".", "b">>,
      <<"a", "[", ".", "b">>,
      <<"a", "[", ".", "a">>,
      <<"b", ".", "a", ".", "b">>,
      <<"a", "!", ".", "b">>,
      <<"a", ".", "b", " ">>,
      <<"a", "grave", ".", "b">>,
      <<"A", "-", "_", "9", ".", "b", "-", "Z", "_", "0">> }

(* The token and expires members of the token.issue frames. *)
IssuedTokens == {Str("T4"), Undefined}
IssuedExpiries == {Str("E1"), Undefined}

Frames ==
    {Frame(j, "undefined", <<>>, 0) : j \in {"malformed", "null", "number", "string", "boolean", "array", "object"}}
    \cup {Frame("object", k, <<>>, 0) : k \in {"null", "number", "boolean"}}
    \cup {Frame("object", k, <<>>, 1) : k \in {"number", "boolean"}}
    \cup {Frame("object", k, <<>>, 0) : k \in {"array", "object"}}
    \cup {TypedFrame(t) : t \in StringsUpTo(MaxTypeLen) \cup SpecialTypes}
    \cup {IssueFrame(s_client \o <<".">> \o s_token_issue, tok, ex) :
             tok \in IssuedTokens, ex \in IssuedExpiries}
    \cup {IssueFrame(s_client \o <<".">> \o s_token_refresh_issue, Str("T4"), Undefined)}

(***************************************************************************)
(* Initial state: the client as its constructor leaves it                   *)
(* (client.js:8-43, 45-80), the token provider as a setup that returned     *)
(* leaves it.                                                               *)
(***************************************************************************)
NoSetup == [ran |-> FALSE, core |-> Core(FALSE, FALSE, Undefined, FALSE, Absent, Undefined),
            before |-> Absent, threw |-> FALSE]

(* The module variables before setup (module.js:6-10) over given files. *)
Blank(tf, ef) == [token |-> Null, tokenExpires |-> Null, tokenFile |-> tf, expirationFile |-> ef]

(* The state directory at startup: token file, expiration file, writable. *)
InitialDisks == {<<Absent, Absent, TRUE>>, <<File("T2"), File("E0"), FALSE>>, <<Unreadable, Absent, TRUE>>}
InitialCore == Core(TRUE, FALSE, Str("T1"), FALSE, Absent, Undefined)

TokenStateIs(m) ==
    /\ token = m.token
    /\ tokenExpires = m.tokenExpires
    /\ tokenFile = m.tokenFile
    /\ expirationFile = m.expirationFile

Init ==
    /\ reportURL \in BOOLEAN
    /\ providersList \in ProviderLists
    /\ providers = loadProviders(providersList)
    /\ clearImmediateCancels \in BOOLEAN
    /\ IF HasOwn(providers, s_client) /\ reportURL
       THEN \E fs \in InitialDisks :
               LET o == setup(Blank(fs[1], fs[2]), InitialCore, fs[3]) IN
               ~o.threw /\ TokenStateIs(o.m) /\ writable = fs[3]
       ELSE TokenStateIs(Blank(Absent, Absent)) /\ writable = TRUE /\ clearImmediateCancels = TRUE
    /\ tokenRefreshInterval = 0
    /\ intervals = {}
    /\ connection = 0
    /\ readyState = <<>>
    /\ alwaysReconnect = FALSE
    /\ nextConnectionAttempt = FALSE
    /\ timers = 0
    /\ signalHandlers = <<>>
    /\ proc = "running"
    /\ trace = <<>>
    /\ dispatch = NoDispatch
    /\ sendCall = NoSend
    /\ setupCall = NoSetup

Fixed == UNCHANGED <<reportURL, providersList, providers, clearImmediateCancels, writable, setupCall>>

(* No message callback and no send is in progress. *)
Quiet == dispatch' = NoDispatch /\ sendCall' = NoSend

(* The host calls client.connect() once, after construction                 *)
(* (part_001:245).                                                          *)
Connect ==
    /\ proc = "running"
    /\ readyState = <<>>
    /\ Becomes(connect(Cur))
    /\ Quiet
    /\ Fixed

(* The host turns automatic reconnection on by setting the public field     *)
(* (client.js:36-39).                                                       *)
EnableReconnect ==
    /\ proc = "running"
    /\ ~alwaysReconnect
    /\ Becomes([Cur EXCEPT !.alwaysReconnect = TRUE])
    /\ Quiet
    /\ Fixed

(* The host calls client.send(message); an exception goes to the host. *)
Send(msg) ==
    /\ proc = "running"
    /\ sendCall' = send(msg)
    /\ dispatch' = NoDispatch
    /\ Becomes(Cur)
    /\ Fixed

(* The transport reports the session established. *)
OnOpen(c) ==
    /\ proc = "running"
    /\ readyState[c] = CONNECTING
    /\ Becomes(openHandler([Cur EXCEPT !.readyState[c] = OPEN], c))
    /\ Quiet
    /\ Fixed

(* The transport fails: the socket goes to CLOSING and 'error' is emitted;  *)
(* 'close' follows.                                                         *)
OnError(c) ==
    /\ proc = "running"
    /\ readyState[c] \in {CONNECTING, OPEN}
    /\ Becomes(errorHandler([Cur EXCEPT !.readyState[c] = CLOSING], c))
    /\ Quiet
    /\ Fixed

(* A frame arrives on an open socket; the message callback runs when the   *)
(* previous one has returned.                                               *)
OnMessage(c, f) ==
    /\ proc = "running"
    /\ readyState[c] = OPEN
    /\ dispatch = NoDispatch
    /\ dispatch' = messageHandler(f, c)
    /\ Becomes([handlerBody(Cur, dispatch') EXCEPT
                   !.proc = IF dispatch'.escaped THEN "crashed" ELSE @])
    /\ sendCall' = NoSend
    /\ Fixed

(* The message callback has returned. *)
MessageDone ==
    /\ proc = "running"
    /\ dispatch # NoDispatch
    /\ dispatch' = NoDispatch
    /\ sendCall' = sendCall
    /\ Becomes(Cur)
    /\ Fixed

(* The transport session ends: the socket is CLOSED and 'close' is emitted. *)
OnClose(c) ==
    /\ proc = "running"
    /\ readyState[c] \in {OPEN, CLOSING}
    /\ Becomes(closeHandler([Cur EXCEPT !.readyState[c] = CLOSED], c))
    /\ Quiet
    /\ Fixed

(* The reconnect timeout fires. *)
ReconnectTimer ==
    /\ proc = "running"
    /\ timers > 0
    /\ Len(readyState) < MaxConnections
    /\ Becomes(reconnectCallback([Cur EXCEPT !.timers = @ - 1]))
    /\ Quiet
    /\ Fixed

(* An armed refresh interval fires; an exception in its callback is         *)
(* uncaught.                                                                *)
RefreshTick(c, wsThrows) ==
    /\ proc = "running"
    /\ c \in intervals
    /\ sendCall' = refreshTick(c, wsThrows)
    /\ Becomes(IF sendCall'.threw THEN Uncaught(Cur) ELSE Cur)
    /\ dispatch' = NoDispatch
    /\ Fixed

(* The operating system delivers a stop signal.  The event logged for it    *)
(* names this.connection when that socket is OPEN, and 0 otherwise.         *)
CurrentOpen == IF connection # 0 /\ readyState[connection] = OPEN THEN connection ELSE 0

Signal(e) ==
    /\ proc = "running"
    /\ LET m == Log(Cur, Event("signal", <<>>, CurrentOpen, e)) IN
       Becomes(IF m.signalHandlers = <<>>
               THEN [m EXCEPT !.proc = "killed"]
               ELSE runListeners(m, e, 1))
    /\ Quiet
    /\ Fixed

Next ==
    \/ Connect
    \/ EnableReconnect
    \/ \E msg \in OutMessages : Send(msg)
    \/ \E c \in 1..Len(readyState) : OnOpen(c)
    \/ \E c \in 1..Len(readyState) : OnError(c)
    \/ \E c \in 1..Len(readyState) : \E f \in Frames : OnMessage(c, f)
    \/ MessageDone
    \/ \E c \in 1..Len(readyState) : OnClose(c)
    \/ ReconnectTimer
    \/ \E c \in 1..Len(readyState) : \E wsThrows \in BOOLEAN : RefreshTick(c, wsThrows)
    \/ \E e \in Signals : Signal(e)

Spec == Init /\ [][Next]_vars

(***************************************************************************)
(* The setup of the providers on its own: the constructor calls             *)
(* provider.setup(this.coreEnv) in a loop over the registry                 *)
(* (client.js:74-79), over whatever the state directory holds, with         *)
(* whatever the host configured.  The loop has no try/catch: an exception   *)
(* of a setup ends it, leaves the constructor and is uncaught.              *)
(***************************************************************************)
SetupLists ==
    { <<Package(s_client, TRUE, clientModule)>>,
      <<Preloaded(clientModule), Preloaded(modSetupThrows), Preloaded(modSetup)>>,
      <<Preloaded(modSetup), Preloaded(clientModule), Preloaded(modB)>> }

RECURSIVE setupLoop(_, _, _)
setupLoop(m, core, i) ==
    IF i > Len(providers) THEN Outcome(m, FALSE)
    ELSE LET p == providers[i] IN
         IF "setup" \in p.module.hooks
         THEN LET m1 == Log(m, Event("setup", p.key, 0, ""))
                  o == IF IsTokenProvider(p.module) THEN setup(m1, core, writable)
                       ELSE Outcome(m1, "setup" \in p.module.hookThrows) IN
              IF o.threw THEN o ELSE setupLoop(o.m, core, i + 1)
         ELSE setupLoop(m, core, i + 1)

TokenDisks == {Absent, File("T2"), Unreadable} \X {Absent, File("E0")} \X BOOLEAN

Cores ==
    {Core(a, f, t, g[1], g[2], st) :
        a \in BOOLEAN, f \in BOOLEAN, t \in {Undefined, Str("T3")},
        g \in {<<FALSE, Absent>>, <<TRUE, Absent>>, <<TRUE, File("T5")>>},
        st \in {Undefined, Str("T1")}}

TokenInit ==
    /\ reportURL = TRUE
    /\ providersList \in SetupLists
    /\ providers = loadProviders(providersList)
    /\ clearImmediateCancels = TRUE
    /\ \E fs \in TokenDisks : TokenStateIs(Blank(fs[1], fs[2])) /\ writable = fs[3]
    /\ tokenRefreshInterval = 0
    /\ intervals = {}
    /\ connection = 0
    /\ readyState = <<>>
    /\ alwaysReconnect = FALSE
    /\ nextConnectionAttempt = FALSE
    /\ timers = 0
    /\ signalHandlers = <<>>
    /\ proc = "running"
    /\ trace = <<>>
    /\ dispatch = NoDispatch
    /\ sendCall = NoSend
    /\ setupCall = NoSetup

Setup(core) ==
    /\ proc = "running"
    /\ ~setupCall.ran
    /\ LET o == setupLoop(Cur, core, 1) IN
       /\ setupCall' = [ran |-> TRUE, core |-> core, before |-> tokenFile, threw |-> o.threw]
       /\ Becomes(IF o.threw THEN Uncaught(o.m) ELSE o.m)
    /\ Quiet
    /\ UNCHANGED <<reportURL, providersList, providers, clearImmediateCancels, writable>>

TokenNext == \E core \in Cores : Setup(core)

TokenSpec == TokenInit /\ [][TokenNext]_vars

(***************************************************************************)
(* loadProviders on its own (client.js:65, 121-165): the constructor calls  *)
(* it once with settings.providers, here any list of at most MaxListLen     *)
(* entries.  The registry is empty until the call has returned.             *)
(***************************************************************************)
LoadEntries ==
    { Preloaded(modA), Preloaded(modB), Preloaded(modStopThrows), Preloaded(modProto),
      Preloaded([modB EXCEPT !.name = <<>>]),
      Package(<<"b">>, TRUE, [modA EXCEPT !.name = <<>>]),
      Package(s_capability, FALSE, capabilityModule) }

LoadLists == UNION {[1..n -> LoadEntries] : n \in 0..MaxListLen}

LoadInit ==
    /\ reportURL = TRUE
    /\ providersList \in LoadLists
    /\ providers = <<>>
    /\ clearImmediateCancels = TRUE
    /\ TokenStateIs(Blank(Absent, Absent))
    /\ writable = TRUE
    /\ tokenRefreshInterval = 0
    /\ intervals = {}
    /\ connection = 0
    /\ readyState = <<>>
    /\ alwaysReconnect = FALSE
    /\ nextConnectionAttempt = FALSE
    /\ timers = 0
    /\ signalHandlers = <<>>
    /\ proc = "running"
    /\ trace = <<>>
    /\ dispatch = NoDispatch
    /\ sendCall = NoSend
    /\ setupCall = NoSetup

Load ==
    /\ proc = "running"
    /\ trace = <<>>
    /\ providers' = loadProviders(providersList)
    /\ Becomes(Log(Cur, Event("loadProviders", <<>>, 0, "")))
    /\ Quiet
    /\ UNCHANGED <<reportURL, providersList, clearImmediateCancels, writable, setupCall>>

LoadNext == Load

LoadSpec == LoadInit /\ [][LoadNext]_vars


(***************************************************************************)
(* Vocabulary of the properties.                                            *)
(***************************************************************************)
Positions(ev) == {i \in 1..Len(trace) : trace[i].ev = ev}

Signalled == Positions("signal") # {}

Live == {c \in 1..Len(readyState) : readyState[c] # CLOSED}

(* The documented grammar of message types: <provider-name>.<message-name>  *)
(* with provider-name in [A-Za-z0-9_-]+ and message-name in [A-Za-z0-9_.-]+ *)
NameChars == Upper \cup Lower \cup Digits \cup {"_", "-"}

HasDot(t) == \E i \in 1..Len(t) : t[i] = "."
FirstDot(t) == CHOOSE i \in 1..Len(t) : t[i] = "." /\ \A j \in 1..(i - 1) : t[j] # "."
BeforeFirstDot(t) == SubSeq(t, 1, FirstDot(t) - 1)
AfterFirstDot(t) == SubSeq(t, FirstDot(t) + 1, Len(t))

WellFormed(t) ==
    /\ HasDot(t)
    /\ BeforeFirstDot(t) # <<>>
    /\ AfterFirstDot(t) # <<>>
    /\ \A i \in 1..Len(t) : t[i] \in NameChars \cup {"."}

Dispatched == dispatch.outcome # "idle"
StringTyped == Dispatched /\ dispatch.frame.json = "object" /\ dispatch.frame.tkind = "string"
WellTyped == StringTyped /\ WellFormed(dispatch.frame.tstr)
Dropped == dispatch.outcome \in {"drop.json", "drop.notype", "drop.format",
                                 "drop.noprovider", "drop.nohandler"}

(***************************************************************************)
(* C1: whenever a stop signal arrives while the current connection is       *)
(* OPEN, the final status message is sent on that connection, the           *)
(* connection is then closed, and both happen before every onStop call      *)
(* and before the process exits.                                            *)
(***************************************************************************)
C1_StopNotifiesCurrentConnection ==
    \A i \in Positions("signal") :
        trace[i].conn # 0 =>
            \E j \in Positions("send.client.state.stopped") :
            \E k \in Positions("close") :
                /\ i < j /\ j < k
                /\ trace[j].conn = trace[i].conn
                /\ trace[k].conn = trace[i].conn
                /\ \A x \in Positions("onStop") \cup Positions("exit") : k < x

(***************************************************************************)
(* C2: however many times connect() has registered its signal listener,     *)
(* every provider's onStop is called at most once and at most one final     *)
(* status message is sent; when the stop procedure has run to its exit,     *)
(* every provider declaring onStop was called exactly once.                 *)
(***************************************************************************)
OnStopCalls(k) == {i \in Positions("onStop") : trace[i].provider = k}

C2_StopOnce ==
    /\ \A k \in RegistryKeys(providers) : Cardinality(OnStopCalls(k)) <= 1
    /\ Cardinality(Positions("send.client.state.stopped")) <= 1
    /\ proc = "exited" =>
          \A i \in 1..Len(providers) :
              "onStop" \in providers[i].module.hooks => Cardinality(OnStopCalls(providers[i].key)) = 1

C2_Witness ==
    /\ proc = "exited"
    /\ Len(signalHandlers) >= 2
    /\ Positions("onStop") # {}

(***************************************************************************)
(* C3: a close with the retry flag set schedules exactly one reconnect      *)
(* attempt, never more than one attempt is pending, and once a stop signal  *)
(* has arrived no pending attempt runs connect().                           *)
(***************************************************************************)
CloseStep ==
    /\ Len(trace') > Len(trace)
    /\ trace'[Len(trace) + 1].ev = "closed"

C3_OneReconnect ==
    /\ [](timers <= 1)
    /\ [][CloseStep /\ alwaysReconnect /\ proc' = "running" => timers = 0 /\ timers' = 1]_vars
    /\ [][Signalled => Len(readyState') = Len(readyState)]_vars

C3_Witness == Signalled /\ timers = 1 /\ proc = "exited"

(***************************************************************************)
(* C4: the retry flag is set from startup until a stop signal, so a close   *)
(* that happens before any stop signal leaves a reconnect attempt pending.  *)
(***************************************************************************)
C4_RetryFromStartup ==
    (/\ proc = "running"
     /\ ~Signalled
     /\ connection # 0
     /\ readyState[connection] = CLOSED) => (alwaysReconnect /\ timers = 1)

(***************************************************************************)
(* C5: at most one connection is not CLOSED, and a connection is created    *)
(* only when every earlier one is CLOSED.                                   *)
(***************************************************************************)
C5_OneLive ==
    /\ [](Cardinality(Live) <= 1)
    /\ [][Len(readyState') > Len(readyState) => Live = {}]_vars

C5_Witness ==
    /\ Len(readyState) >= 2
    /\ readyState[1] = CLOSED
    /\ readyState[Len(readyState)] = OPEN

(***************************************************************************)
(* C6: for a frame whose type does not match the documented grammar, no     *)
(* provider is looked up, no handler map is consulted and no handler is     *)
(* invoked.                                                                 *)
(***************************************************************************)
C6_BadTypeNeverRouted ==
    (Dispatched /\ ~WellTyped) =>
        (~dispatch.lookedUp /\ ~dispatch.consulted /\ dispatch.invoked = <<>>)

(***************************************************************************)
(* C7: a frame of type p.m with no provider registered as p is dropped:     *)
(* no handler is invoked and no exception leaves the message callback.      *)
(***************************************************************************)
C7_UnknownProviderDropped ==
    (WellTyped /\ BeforeFirstDot(dispatch.frame.tstr) \notin RegistryKeys(providers)) =>
        (Dropped /\ dispatch.invoked = <<>> /\ ~dispatch.escaped /\ proc = "running")

(***************************************************************************)
(* C8: a frame of type p.m where p is registered but has no handler m,      *)
(* with or without a handler map, is dropped: no handler is invoked and no  *)
(* exception leaves the message callback.                                   *)
(***************************************************************************)
C8_UnknownMessageDropped ==
    (/\ WellTyped
     /\ BeforeFirstDot(dispatch.frame.tstr) \in RegistryKeys(providers)
     /\ LET mod == Own(providers, BeforeFirstDot(dispatch.frame.tstr)) IN
        ~mod.hasMessages \/ AfterFirstDot(dispatch.frame.tstr) \notin mod.messages) =>
        (Dropped /\ dispatch.invoked = <<>> /\ ~dispatch.escaped /\ proc = "running")

(***************************************************************************)
(* C9: a frame that is malformed, does not decode to an object, has no      *)
(* type, has a type that is not a string, or has a type outside the         *)
(* grammar is dropped; no exception leaves the message callback and the     *)
(* process keeps running with the connection OPEN.                          *)
(***************************************************************************)
C9_BadFrameDropped ==
    (Dispatched /\ ~WellTyped) =>
        (/\ Dropped
         /\ ~dispatch.escaped
         /\ proc = "running"
         /\ readyState[dispatch.conn] = OPEN)

(***************************************************************************)
(* C10: for a well-formed type whose provider (the text before the first    *)
(* dot) is registered and has a handler under the whole remainder, exactly  *)
(* that handler is invoked, once, with (message, connection, coreEnv); and  *)
(* whatever is invoked for a frame is the single handler named by the       *)
(* split at the first dot.                                                  *)
(***************************************************************************)
C10_RoutesByFirstDot ==
    /\ (/\ WellTyped
        /\ BeforeFirstDot(dispatch.frame.tstr) \in RegistryKeys(providers)
        /\ LET mod == Own(providers, BeforeFirstDot(dispatch.frame.tstr)) IN
           mod.hasMessages /\ AfterFirstDot(dispatch.frame.tstr) \in mod.messages) =>
           (/\ dispatch.invoked = <<Invocation(BeforeFirstDot(dispatch.frame.tstr),
                                               AfterFirstDot(dispatch.frame.tstr),
                                               dispatch.frame, dispatch.conn)>>
            /\ ~dispatch.escaped)
    /\ dispatch.invoked # <<>> =>
           (/\ Len(dispatch.invoked) = 1
            /\ StringTyped
            /\ dispatch.invoked[1].provider = BeforeFirstDot(dispatch.frame.tstr)
            /\ dispatch.invoked[1].handler = AfterFirstDot(dispatch.frame.tstr)
            /\ dispatch.invoked[1].message = dispatch.frame
            /\ dispatch.invoked[1].connection = dispatch.conn)

C10_Witness ==
    /\ WellTyped
    /\ HasDot(AfterFirstDot(dispatch.frame.tstr))
    /\ Len(dispatch.invoked) = 1
    /\ dispatch.conn = 2


(***************************************************************************)
(* C11: when the message handler a frame is routed to throws, the error     *)
(* stays inside the message callback: nothing escapes it, the process       *)
(* keeps running, and the connection the frame came on is left as it was,   *)
(* OPEN, so that the callback runs again for the next frame.                *)
(***************************************************************************)
ThrowingInvocation(d) ==
    /\ d.invoked # <<>>
    /\ handlerThrows(Own(providers, d.invoked[1].provider), d.invoked[1].handler,
                     d.invoked[1].message)

C11_HandlerErrorContained ==
    [][(dispatch = NoDispatch /\ ThrowingInvocation(dispatch'))
         => /\ ~dispatch'.escaped
            /\ proc' = "running"
            /\ readyState' = readyState
            /\ readyState'[dispatch'.conn] = OPEN
            /\ connection' = connection]_vars

(* A handler that throws has been invoked and the process still runs. *)
C11_Witness ==
    /\ dispatch.outcome = "caught"
    /\ dispatch.invoked # <<>>
    /\ dispatch.invoked[1].handler \in Own(providers, dispatch.invoked[1].provider).throwing
    /\ proc = "running"

(***************************************************************************)
(* C12: a call of send(message) by the host writes to the transport if and  *)
(* only if there is a connection, it is OPEN, and message.type is a         *)
(* string; then it writes exactly once and returns, and in every other      *)
(* case it throws and does not touch the transport.                         *)
(***************************************************************************)
Sendable(r) ==
    /\ r.conn # 0
    /\ r.state = OPEN
    /\ r.message.kind = "object"
    /\ r.message.tkind = "string"

C12_SendIffOpenAndTyped ==
    sendCall.by = "host" =>
        IF Sendable(sendCall)
        THEN sendCall.calls = 1 /\ sendCall.writes = 1 /\ ~sendCall.threw
        ELSE sendCall.calls = 0 /\ sendCall.writes = 0 /\ sendCall.threw

(* The host has sent a message on an OPEN connection. *)
C12_Witness ==
    /\ sendCall.by = "host"
    /\ sendCall.writes = 1
    /\ readyState[sendCall.conn] = OPEN


(***************************************************************************)
(* C13: connect() creates a transport session only when a target address    *)
(* is configured and the provider registered as 'client' supplies a token   *)
(* that is set; in every other case it fails and creates none.              *)
(***************************************************************************)
SessionCreated == Len(readyState') > Len(readyState)

TokenObtainable ==
    /\ HasOwn(providers, s_client)
    /\ IsTokenProvider(Own(providers, s_client))
    /\ Truthy(token)

C13_ConnectNeedsAddressAndToken ==
    [][SessionCreated => (reportURL /\ TokenObtainable)]_vars

(***************************************************************************)
(* C14: when a connection opens, onConnect has been called on every         *)
(* provider that declares it, in the order of the registry, also when one   *)
(* of them throws: the calls made for the connection are exactly the        *)
(* declaring providers, in order.                                           *)
(***************************************************************************)
Declares(p) == "onConnect" \in p.module.hooks

Declaring == [j \in 1..Len(SelectSeq(providers, Declares)) |->
                 SelectSeq(providers, Declares)[j].key]

OnConnectCalls(c) ==
    LET IsCall(e) == e.ev = "onConnect" /\ e.conn = c
        calls == SelectSeq(trace, IsCall) IN
    [j \in 1..Len(calls) |-> calls[j].provider]

C14_OnConnectReachesEveryProvider ==
    \A i \in Positions("open") : OnConnectCalls(trace[i].conn) = Declaring

(***************************************************************************)
(* C15: for each connection, each provider's onDisconnect is called at      *)
(* most once, and the fan-out of the stop procedure (after its close())     *)
(* and the fan-out of the 'close' event never both run for one connection.  *)
(***************************************************************************)
OnDisconnectCalls(c, k) ==
    {i \in Positions("onDisconnect") : trace[i].conn = c /\ trace[i].provider = k}

C15_DisconnectOnce ==
    \A c \in 1..Len(readyState) :
        /\ \A k \in RegistryKeys(providers) : Cardinality(OnDisconnectCalls(c, k)) <= 1
        /\ ~ /\ \E i \in Positions("close") : trace[i].conn = c
             /\ \E j \in Positions("closed") : trace[j].conn = c

(* The stop procedure closed an open connection and called onDisconnect     *)
(* for it, and the process has exited.                                      *)
C15_Witness ==
    /\ proc = "exited"
    /\ \E i \in Positions("close") : \E j \in Positions("onDisconnect") :
           trace[j].conn = trace[i].conn /\ i < j

(***************************************************************************)
(* C16: while the process runs, at most one refresh interval is armed, and  *)
(* an armed interval belongs to a connection that has not been closed.      *)
(***************************************************************************)
C16_RefreshTimerFollowsConnection ==
    proc = "running" =>
        /\ Cardinality(intervals) <= 1
        /\ \A c \in intervals : readyState[c] # CLOSED

(***************************************************************************)
(* C17: a refresh tick that fires when its connection is closed does        *)
(* nothing: it does not call send on the closed socket, it does not throw,  *)
(* and the process keeps running.                                           *)
(***************************************************************************)
C17_StaleTickIsNoOp ==
    (sendCall.by = "tick" /\ sendCall.state = CLOSED) =>
        /\ sendCall.calls = 0
        /\ ~sendCall.threw
        /\ proc = "running"


(***************************************************************************)
(* C18: after setup, when a readable token file existed, getToken()         *)
(* returns its contents, whatever initial token is configured; when no      *)
(* token file existed and an initial token is configured (on the command    *)
(* line, in the file the command line names, or in the settings) and the    *)
(* state directory can be written, getToken() returns that token and the    *)
(* token file holds it.                                                     *)
(***************************************************************************)
ConfiguredToken(core) ==
    IF core.hasArgs /\ Truthy(core.argToken) THEN core.argToken
    ELSE IF core.hasArgs /\ core.argTokenFileGiven /\ core.argTokenFile.state = "file"
    THEN Str(core.argTokenFile.bytes)
    ELSE core.settingsToken

C18_PersistedTokenWins ==
    setupCall.ran =>
        IF setupCall.before.state = "file"
        THEN token.kind \in {"string", "buffer"} /\ token.v = setupCall.before.bytes
        ELSE (setupCall.before = Absent /\ Truthy(ConfiguredToken(setupCall.core)) /\ writable)
                => (token = ConfiguredToken(setupCall.core) /\ tokenFile = File(token.v))


(***************************************************************************)
(* C19: a frame routed to the token provider's token.issue handler makes    *)
(* the frame's token the one getToken() returns and, when the token file    *)
(* can be written, the contents of the token file, within the message       *)
(* callback; when the write fails nothing escapes the callback, the         *)
(* process keeps running and getToken() returns the frame's token all the   *)
(* same.  A frame of type client.token.refresh.issue is dropped without a   *)
(* handler being called and leaves the token, its expiry and both files     *)
(* unchanged.                                                               *)
(***************************************************************************)
IssueDispatched(d) ==
    /\ d.invoked # <<>>
    /\ IsTokenIssue(Own(providers, d.invoked[1].provider), d.invoked[1].handler)

RefreshIssueFrame(d) ==
    /\ d.frame.json = "object"
    /\ d.frame.tkind = "string"
    /\ d.frame.tstr = s_client \o <<".">> \o s_token_refresh_issue

C19_TokenIssueReplacesToken ==
    [][/\ (dispatch = NoDispatch /\ IssueDispatched(dispatch'))
            => /\ token' = dispatch'.frame.token
               /\ ~writeThrows(tokenFile, dispatch'.frame.token, writable)
                     => tokenFile' = File(dispatch'.frame.token.v)
               /\ ~dispatch'.escaped
               /\ proc' = "running"
       /\ (dispatch = NoDispatch /\ RefreshIssueFrame(dispatch'))
            => /\ dispatch'.outcome \in {"drop.noprovider", "drop.nohandler"}
               /\ dispatch'.invoked = <<>>
               /\ proc' = "running"
               /\ UNCHANGED <<token, tokenExpires, tokenFile, expirationFile>>]_vars

(* A token has been issued and persisted. *)
C19_Witness ==
    /\ IssueDispatched(dispatch)
    /\ dispatch.outcome = "handled"
    /\ dispatch.frame.token = Str("T4")
    /\ token = Str("T4")
    /\ tokenFile = File("T4")

(***************************************************************************)
(* C20: the registry holds exactly the entries of the list that can be      *)
(* loaded, each under its key and, for a key given twice, the later one:    *)
(* an entry whose module fails to load is left out and the entries after    *)
(* it are registered all the same.                                          *)
(***************************************************************************)
Loads(e) == IF e.kind = "string" THEN e.loadable ELSE e.module.name # <<>>

KeyOf(e) == IF e.module.name # <<>> THEN e.module.name ELSE e.packageName

Loaded == {i \in 1..Len(providersList) : Loads(providersList[i])}

C20_LoadFailureSkipped ==
    /\ RegistryKeys(providers) = {KeyOf(providersList[i]) : i \in Loaded}
    /\ \A i \in Loaded :
           (\A j \in Loaded : KeyOf(providersList[j]) = KeyOf(providersList[i]) => j <= i)
               => Own(providers, KeyOf(providersList[i])) = providersList[i].module

(* A package of the list failed to load and a later entry is registered. *)
C20_Witness ==
    \E i \in 1..Len(providersList) : \E j \in Loaded :
        /\ providersList[i].kind = "string"
        /\ ~providersList[i].loadable
        /\ i < j
        /\ HasOwn(providers, KeyOf(providersList[j]))


(***************************************************************************)
(* C21: when loadProviders has returned, every entry of the list that was   *)
(* loaded has its key in the registry, the key being the module's declared  *)
(* name or, without one, the package name it was loaded by; the key occurs  *)
(* once and holds the module of the last entry of the list with that key;   *)
(* and the load raised nothing.                                             *)
(***************************************************************************)
LastWith(k) == CHOOSE i \in Loaded :
                  /\ KeyOf(providersList[i]) = k
                  /\ \A j \in Loaded : KeyOf(providersList[j]) = k => j <= i

C21_RegisteredUnderKeyLastWins ==
    Positions("loadProviders") # {} =>
        /\ proc = "running"
        /\ \A i \in Loaded :
              LET k == KeyOf(providersList[i]) IN
              /\ HasOwn(providers, k)
              /\ Cardinality({j \in 1..Len(providers) : providers[j].key = k}) = 1
              /\ Own(providers, k) = providersList[LastWith(k)].module


(***************************************************************************)
(* C22: when the constructor's setup loop is over, setup has been called    *)
(* exactly once on every registered provider that declares it, also when    *)
(* the setup of one of them threw.                                          *)
(***************************************************************************)
SetupCalls(k) == {j \in Positions("setup") : trace[j].provider = k}

C22_SetupReachesEveryProvider ==
    setupCall.ran =>
        \A i \in 1..Len(providers) :
            "setup" \in providers[i].module.hooks
                => Cardinality(SetupCalls(providers[i].key)) = 1


(***************************************************************************)
(* C23: when the stop procedure has ended the process, every connection     *)
(* whose onConnect fan-out ran has had an onDisconnect fan-out after it,    *)
(* from the stop procedure (after its close()) or from the 'close' event;   *)
(* and every connection opened before a later one was created had its       *)
(* fan-out before that creation.                                            *)
(***************************************************************************)
DisconnectedAfter(i) ==
    \E j \in (i + 1)..Len(trace) :
        trace[j].ev \in {"close", "closed"} /\ trace[j].conn = trace[i].conn

C23_OpenedConnectionIsDisconnected ==
    /\ proc = "exited" => \A i \in Positions("open") : DisconnectedAfter(i)
    /\ \A i \in Positions("open") : \A n \in Positions("connect") :
           i < n => \E j \in (i + 1)..(n - 1) :
                       trace[j].ev \in {"close", "closed"} /\ trace[j].conn = trace[i].conn

(***************************************************************************)
(* C24: whenever a token.issue handler has returned normally, the token     *)
(* file holds the token in memory and the expiry on disk is the one of      *)
(* that issuance: the expiration file holds the expiry in memory, or does   *)
(* not exist when the token was issued without one.                         *)
(***************************************************************************)
C24_PersistedMatchesIssued ==
    [][(dispatch = NoDispatch /\ IssueDispatched(dispatch') /\ dispatch'.outcome = "handled")
          => /\ tokenFile' = File(token'.v)
             /\ IF Truthy(tokenExpires')
                THEN expirationFile' = File(tokenExpires'.v)
                ELSE expirationFile' = Absent]_vars


(***************************************************************************)
(* C25: a message callback that drops its frame (unparsable, without a      *)
(* type, with a type that does not match the format, for a provider or a    *)
(* message name that is not registered) leaves the registry, the            *)
(* connections and the current connection, the retry flag, the pending      *)
(* reconnect timer, the token and its expiry in memory and on disk, the     *)
(* refresh intervals and the process as they were, and sends nothing.       *)
(***************************************************************************)
C25_DroppedFrameChangesNothing ==
    [][(dispatch = NoDispatch /\ Dropped')
          => /\ UNCHANGED <<providers, connection, readyState, alwaysReconnect,
                            nextConnectionAttempt, timers, token, tokenExpires,
                            tokenFile, expirationFile, intervals, tokenRefreshInterval,
                            signalHandlers, proc, trace>>
             /\ sendCall' = NoSend]_vars

(* A frame that carries a token has been dropped and the token is another. *)
C25_Witness ==
    /\ Dropped
    /\ RefreshIssueFrame(dispatch)
    /\ dispatch.frame.token = Str("T4")
    /\ token # Str("T4")
    /\ proc = "running"

====
